---- MODULE Spec2Model ----
(***************************************************************************)
(* Model of parser.py: the HTML test report to XML converter with its      *)
(* archiving step.  Python strings are TLA+ strings, taken apart with Len  *)
(* and SubSeq; a dict is a function whose DOMAIN is its key set; the       *)
(* parsed HTML document is the sequence of its top-level items (runs of    *)
(* whitespace and <tr> rows with their <td> cell texts); the filesystem is *)
(* a set of directories and a function from file paths to contents, paths  *)
(* being sequences of components.                                          *)
(***************************************************************************)
EXTENDS Integers, Sequences, FiniteSets, TLC

VARIABLES
    args,          \* argparse.Namespace: [dir1, dir2, archive (given, path)]
    fsDirs,        \* the directories that exist
    fsFiles,       \* path -> content, for the files that exist
    pc,            \* position in main / the script
    html_content,  \* main's local html_content
    data,          \* html_to_xml's local dict `data`
    xml_content,   \* what html_to_xml gave: [kind: "xml" | "None" | "raise"]
    ret,           \* what main returned (an ExitCode member), or how it ended
    raised,        \* the operation and exception of the last OS error
    status,        \* the exit status of the process
    steps,         \* the operations this run has performed, in order
    run,           \* number of the current invocation of the tool
    history,       \* summaries of the finished invocations
    fs0            \* the directories and files when the current run began

vars == <<args, fsDirs, fsFiles, pc, html_content, data, xml_content, ret,
          raised, status, steps, run, history, fs0>>

----------------------------------------------------------------------------
(* Bounds *)

MaxRuns == 2        \* invocations of the tool in a row
MaxRows == 2        \* rows of a document of the extractor's input space
MaxCellLen == 3     \* characters of a header cell of that input space

----------------------------------------------------------------------------
(* Python str operations *)

None == [type |-> "NoneType"]

Char(s, i) == SubSeq(s, i, i)

\* str.isspace for one character
IsSpace(c) == c \in {" ", "\t", "\n"}

IsDigit(c) == c \in {"0", "1", "2", "3", "4", "5", "6", "7", "8", "9"}

DigitVal(c) ==
    CASE c = "0" -> 0 [] c = "1" -> 1 [] c = "2" -> 2 [] c = "3" -> 3
      [] c = "4" -> 4 [] c = "5" -> 5 [] c = "6" -> 6 [] c = "7" -> 7
      [] c = "8" -> 8 [] c = "9" -> 9

RECURSIVE LStrip(_)
LStrip(s) ==
    IF Len(s) > 0 /\ IsSpace(Char(s, 1)) THEN LStrip(SubSeq(s, 2, Len(s))) ELSE s

RECURSIVE RStrip(_)
RStrip(s) ==
    IF Len(s) > 0 /\ IsSpace(Char(s, Len(s)))
    THEN RStrip(SubSeq(s, 1, Len(s) - 1)) ELSE s

\* str.strip()
Strip(s) == RStrip(LStrip(s))

\* str.replace(old, new) for a one-character old
RECURSIVE Replace(_, _, _)
Replace(s, old, new) ==
    IF Len(s) = 0 THEN ""
    ELSE (IF Char(s, 1) = old THEN new ELSE Char(s, 1))
         \o Replace(SubSeq(s, 2, Len(s)), old, new)

\* the index of the first whitespace character of s, or Len(s) + 1
RECURSIVE TokenEnd(_, _)
TokenEnd(s, i) ==
    IF i > Len(s) \/ IsSpace(Char(s, i)) THEN i ELSE TokenEnd(s, i + 1)

\* str.split(): the whitespace-delimited tokens, none of them empty
RECURSIVE Split(_)
Split(s) ==
    LET t == LStrip(s)
        e == TokenEnd(t, 1)
    IN  IF Len(t) = 0 THEN <<>>
        ELSE <<SubSeq(t, 1, e - 1)>> \o Split(SubSeq(t, e, Len(t)))

\* `sub in s`
Contains(s, sub) ==
    \E i \in 1..(Len(s) - Len(sub) + 1) : SubSeq(s, i, i + Len(sub) - 1) = sub

AllDigits(s) == \A i \in 1..Len(s) : IsDigit(Char(s, i))

RECURSIVE ParseNat(_)
ParseNat(s) ==
    IF Len(s) = 0 THEN 0
    ELSE 10 * ParseNat(SubSeq(s, 1, Len(s) - 1)) + DigitVal(Char(s, Len(s)))

\* the parts of s between the occurrences of the character sep
RECURSIVE SplitOn(_, _)
SplitOn(s, sep) ==
    IF \A i \in 1..Len(s) : Char(s, i) # sep THEN <<s>>
    ELSE LET i == CHOOSE k \in 1..Len(s) :
                      Char(s, k) = sep /\ \A j \in 1..(k - 1) : Char(s, j) # sep
         IN  <<SubSeq(s, 1, i - 1)>> \o SplitOn(SubSeq(s, i + 1, Len(s)), sep)

RECURSIVE Pow10(_)
Pow10(n) == IF n = 0 THEN 1 ELSE 10 * Pow10(n - 1)

----------------------------------------------------------------------------
(* float(), datetime.strptime, timedelta, datetime + timedelta *)

\* the sign and the unsigned rest of a numeric token
Unsigned(tok) ==
    IF Len(tok) > 0 /\ Char(tok, 1) \in {"+", "-"} THEN SubSeq(tok, 2, Len(tok)) ELSE tok

IsNegative(tok) == Len(tok) > 0 /\ Char(tok, 1) = "-"

\* float(tok) for tokens without exponent and underscores: digits with an
\* optional fraction, or inf / nan; anything else is a ValueError.  A finite
\* value is kept as whole seconds and microseconds.
ParseFloat(tok) ==
    LET u     == Unsigned(tok)
        parts == SplitOn(u, ".")
        whole == parts[1]
        frac  == IF Len(parts) = 2 THEN parts[2] ELSE ""
    IN  IF u \in {"inf", "nan"}
        THEN [ok |-> TRUE, kind |-> u, neg |-> IsNegative(tok), whole |-> 0, micros |-> 0]
        ELSE IF /\ Len(parts) <= 2
                /\ AllDigits(whole) /\ AllDigits(frac)
                /\ Len(whole) + Len(frac) > 0
                /\ Len(frac) <= 6
             THEN [ok |-> TRUE, kind |-> "finite", neg |-> IsNegative(tok),
                   whole |-> ParseNat(whole),
                   micros |-> ParseNat(frac) * Pow10(6 - Len(frac))]
             ELSE [ok |-> FALSE, kind |-> "ValueError", neg |-> FALSE,
                   whole |-> 0, micros |-> 0]

\* timedelta(minutes=x): the wrong unit
TimeDeltaMinutes(x) ==
    [days |-> (60 * x.whole) \div 86400, seconds |-> (60 * x.whole) % 86400,
     microseconds |-> 0]

\* timedelta(seconds=x) of a finite float, normalised as Python keeps it:
\* any number of days, 0 <= seconds < 86400, 0 <= microseconds < 10^6
TimeDelta(x) ==
    LET borrow == IF x.neg /\ x.micros > 0 THEN 1 ELSE 0
        secs   == IF x.neg THEN 0 - x.whole - borrow ELSE x.whole
        us     == IF x.neg /\ x.micros > 0 THEN 1000000 - x.micros ELSE x.micros
    IN  [days |-> secs \div 86400, seconds |-> secs % 86400, microseconds |-> us]

\* date(y, 1, 1).toordinal()
YearOrdinal(y) ==
    365 * (y - 1) + ((y - 1) \div 4) - ((y - 1) \div 100) + ((y - 1) \div 400) + 1

\* one field of the time of day: one digit, or two digits up to max
FieldOk(s, max) ==
    /\ Len(s) \in {1, 2}
    /\ AllDigits(s)
    /\ (Len(s) = 2 => ParseNat(s) <= max)

\* datetime.strptime(s, '%Y %H:%M:%S'): four digits, whitespace, then hour,
\* minute and second separated by colons, and nothing after them.  The month
\* and the day are not in the pattern and default to January 1st.
Strptime(s) ==
    LET rest  == SubSeq(s, 5, Len(s))
        body  == LStrip(rest)
        parts == SplitOn(body, ":")
        bad   == [ok |-> FALSE, ordinal |-> 0, second |-> 0, microsecond |-> 0]
    IN  IF /\ Len(s) >= 4
           /\ AllDigits(SubSeq(s, 1, 4))
           /\ ParseNat(SubSeq(s, 1, 4)) >= 1
           /\ Len(body) < Len(rest)
           /\ Len(parts) = 3
           /\ FieldOk(parts[1], 23) /\ FieldOk(parts[2], 59) /\ FieldOk(parts[3], 59)
        THEN [ok |-> TRUE,
              ordinal |-> YearOrdinal(ParseNat(SubSeq(s, 1, 4))),
              second |-> 3600 * ParseNat(parts[1]) + 60 * ParseNat(parts[2])
                         + ParseNat(parts[3]),
              microsecond |-> 0]
        ELSE bad

\* datetime + timedelta; OverflowError outside date.min .. date.max
AddDelta(t, d) ==
    LET us   == t.microsecond + d.microseconds
        secs == t.second + d.seconds + (us \div 1000000)
        day  == t.ordinal + d.days + (secs \div 86400)
    IN  IF day < 1 \/ day > 3652059
        THEN [ok |-> FALSE, ordinal |-> 0, second |-> 0, microsecond |-> 0]
        ELSE [ok |-> TRUE, ordinal |-> day, second |-> secs % 86400,
              microsecond |-> us % 1000000]

----------------------------------------------------------------------------
(* html_to_xml *)

\* dict.get(key, default)
Get(d, key, default) == IF key \in DOMAIN d THEN d[key] ELSE default

\* d[key] = value
Put(d, key, value) ==
    [k \in DOMAIN d \cup {key} |-> IF k = key THEN value ELSE d[k]]

EmptyDict == [k \in {} |-> ""]

\* the <tr> elements of the parsed document, in document order
RECURSIVE FindRows(_)
FindRows(doc) ==
    IF Len(doc) = 0 THEN <<>>
    ELSE (IF doc[1].kind = "tr" THEN <<doc[1].cells>> ELSE <<>>) \o FindRows(Tail(doc))

\* the header of a two-cell row
Header(cell) == Replace(Strip(cell), ":", "")

\* the loop over the rows that fills `data`
RECURSIVE ExtractRows(_, _)
ExtractRows(rows, d) ==
    IF Len(rows) = 0 THEN d
    ELSE LET cells == rows[1]
         IN  ExtractRows(Tail(rows),
                 IF Len(cells) = 2
                 THEN Put(d, Header(cells[1]), Strip(cells[2]))
                 ELSE d)

ExtractFields(doc) == ExtractRows(FindRows(doc), EmptyDict)

RequiredFields ==
    <<"Station ID", "Serial Number", "Sequence Name", "UUT Result", "Date", "Time">>

MissingFields(d) == {i \in 1..Len(RequiredFields) : RequiredFields[i] \notin DOMAIN d}

XmlNone == [kind |-> "None", exc |-> "", xml |-> <<>>]

Raise(e) == [kind |-> "raise", exc |-> e, xml |-> <<>>]

\* the elements of UGSTesterCom, in order
BuildXml(d, stat, start, end) ==
    [kind |-> "xml", exc |-> "",
     xml |-> << <<"Barcode", d["Serial Number"]>>,
                <<"TesterName", d["Station ID"]>>,
                <<"StationName", d["Station ID"]>>,
                <<"Station", d["Station ID"]>>,
                <<"TestProgram", d["Sequence Name"]>>,
                <<"Status", stat>>,
                <<"StartTime", start>>,
                <<"EndTime", end>>,
                <<"TestSteps">> >>]

\* the try block: float, status, strptime, the sum
ParseFields(d, execution_time_str) ==
    LET x      == ParseFloat(execution_time_str)
        stat   == IF Contains(d["UUT Result"], "Passed") THEN "PASS" ELSE "FAIL"
        tokens == Split(d["Date"])
        comp   == tokens[Len(tokens)] \o " " \o Replace(d["Time"], ".", ":")
        start  == Strptime(comp)
        end    == AddDelta(start, TimeDelta(x))
    IN  IF ~x.ok THEN XmlNone
        ELSE IF Len(tokens) = 0 THEN Raise("IndexError")
        ELSE IF ~start.ok THEN XmlNone
        ELSE IF x.kind = "nan" THEN XmlNone
        ELSE IF x.kind = "inf" THEN Raise("OverflowError")
        ELSE IF ~end.ok THEN Raise("OverflowError")
        ELSE BuildXml(d, stat, start, end)

\* html_to_xml after the extraction: the fields, the presence check, the parse
Validate(d) ==
    LET tokens == Split(Get(d, "Execution Time", "0 seconds"))
    IN  IF Len(tokens) = 0 THEN Raise("IndexError")
        ELSE IF MissingFields(d) # {} THEN XmlNone
        ELSE ParseFields(d, tokens[1])

----------------------------------------------------------------------------
(* ExitCode, os.path and the filesystem *)

ExitCode(n, v) == [type |-> "ExitCode", name |-> n, value |-> v]

SUCCESS          == ExitCode("SUCCESS", 0)
CREATE_DIR_ERROR == ExitCode("CREATE_DIR_ERROR", 1)
READ_HTML_ERROR  == ExitCode("READ_HTML_ERROR", 2)
PARSE_XML_ERROR  == ExitCode("PARSE_XML_ERROR", 3)
WRITE_XML_ERROR  == ExitCode("WRITE_XML_ERROR", 4)
ARCHIVE_ERROR    == ExitCode("ARCHIVE_ERROR", 5)

ExitCodes == {SUCCESS, CREATE_DIR_ERROR, READ_HTML_ERROR, PARSE_XML_ERROR,
              WRITE_XML_ERROR, ARCHIVE_ERROR}

NoReturn == [type |-> "none", name |-> "", value |-> 0 - 1]

dir_for_archiv == "arhiiv"

\* os.path.basename, os.path.dirname, os.path.join on component sequences
Basename(p) == p[Len(p)]
Dirname(p) == SubSeq(p, 1, Len(p) - 1)
Join(d, name) == Append(d, name)

\* os.path.splitext(name)[0]: up to the last dot that is not a leading one
SplitExtRoot(name) ==
    LET dots == {i \in 2..Len(name) : Char(name, i) = "."}
    IN  IF dots = {} THEN name
        ELSE SubSeq(name, 1, (CHOOSE i \in dots : \A j \in dots : j <= i) - 1)

\* os.path.exists
Exists(p) == p \in fsDirs \/ p \in DOMAIN fsFiles

\* the directories os.makedirs(p) leaves existing: p and its parents
Prefixes(p) == {SubSeq(p, 1, n) : n \in 0..Len(p)}

\* the file mapping with path p holding content c / without path p
WithFile(files, p, c) == [q \in DOMAIN files \cup {p} |-> IF q = p THEN c ELSE files[q]]
WithoutFile(files, p) == [q \in DOMAIN files \ {p} |-> files[q]]

NoError == [op |-> "", exc |-> "", env |-> FALSE]
Error(op, exc, env) == [op |-> op, exc |-> exc, env |-> env]

\* main's locals that are functions of args
OutputDir == args.dir2
OutputXmlFile == Join(OutputDir, SplitExtRoot(Basename(args.dir1)) \o ".xml")
ArchiveDir ==
    IF args.archive.given /\ args.archive.path # <<>>
    THEN args.archive.path
    ELSE Join(Dirname(Dirname(args.dir1)), dir_for_archiv)
TargetFilePath == Join(ArchiveDir, Basename(args.dir1))

\* str.strip() of the file's text: the whitespace before the first and after
\* the last item that is not whitespace goes
RECURSIVE StripDoc(_)
StripDoc(doc) ==
    IF Len(doc) = 0 THEN doc
    ELSE IF doc[1].kind = "ws" THEN StripDoc(Tail(doc))
    ELSE IF doc[Len(doc)].kind = "ws" THEN StripDoc(SubSeq(doc, 1, Len(doc) - 1))
    ELSE doc

\* sys.exit(code) at interpreter exit: None is 0, an int is itself, any other
\* object is printed and the status is 1
ExitStatus(code) ==
    IF code.type = "NoneType" THEN 0
    ELSE IF code.type = "int" THEN code.value % 256
    ELSE 1

----------------------------------------------------------------------------
(* The reports and the command lines the runs are given *)

Ws == [kind |-> "ws", cells |-> <<>>]
Tr(cells) == [kind |-> "tr", cells |-> cells]

Report(serial, date, time) ==
    << Ws,
       Tr(<<"Station ID:", "S1">>),
       Tr(<<"Serial Number:", serial>>),
       Tr(<<"Sequence Name:", "seq">>),
       Tr(<<"UUT Result:", " Passed ">>),
       Tr(<<"note">>),
       Tr(<<"Date:", date>>),
       Tr(<<"Time:", time>>),
       Ws >>

Docs ==
    { Report("A1", "Friday 2024", "13.05.00") \o <<Tr(<<"Execution Time:", "45 seconds">>)>>,
      Report("B2", "Friday 2024", "13.05.00"),
      Report("A1", "Friday 2024-05-01", "13.05.00"),
      SubSeq(Report("A1", "Friday 2024", "13.05.00"), 1, 7),
      Report("A1", "Friday 2024", "13.05.00") \o <<Tr(<<"Execution Time:", "">>)>>,
      <<Ws, Ws>> }

SourcePaths == { <<"data", "in", "r.html">>, <<"data", "arhiiv", "r.html">> }

ArchiveArgs(dir1) ==
    { [given |-> FALSE, path |-> <<>>],
      [given |-> TRUE, path |-> <<"arc">>],
      [given |-> TRUE, path |-> Dirname(dir1)] }

File(doc, gen) == [doc |-> doc, gen |-> gen]

NoFiles == [p \in {} |-> File(<<>>, 0)]

\* the archive directory and the archived copy's path of a command line
ArchiveDirOf(a) ==
    IF a.archive.given /\ a.archive.path # <<>> THEN a.archive.path
    ELSE Join(Dirname(Dirname(a.dir1)), dir_for_archiv)

\* The filesystems a run can start in: the source is a file, missing or a
\* directory; the output directory, an earlier XML file, the archive
\* directory and an earlier archived copy are there or not.
StartFs(a) ==
    LET xmlPath == Join(a.dir2, SplitExtRoot(Basename(a.dir1)) \o ".xml")
        target  == Join(ArchiveDirOf(a), Basename(a.dir1))
    IN  { [dirs  |-> Prefixes(Dirname(a.dir1)) \cup o.dirs \cup c.dirs \cup s.dirs,
           files |-> [q \in DOMAIN s.files \cup DOMAIN o.files \cup DOMAIN c.files |->
                        IF q \in DOMAIN s.files THEN s.files[q]
                        ELSE IF q \in DOMAIN o.files THEN o.files[q]
                        ELSE c.files[q]]] :
          s \in {[dirs |-> {}, files |-> WithFile(NoFiles, a.dir1, File(d, 1))] : d \in Docs}
                \cup {[dirs |-> {}, files |-> NoFiles], [dirs |-> {a.dir1}, files |-> NoFiles]},
          o \in {[dirs |-> {}, files |-> NoFiles],
                 [dirs |-> Prefixes(a.dir2), files |-> NoFiles],
                 [dirs |-> Prefixes(a.dir2),
                  files |-> WithFile(NoFiles, xmlPath, File(<<>>, 0))]},
          c \in {[dirs |-> {}, files |-> NoFiles],
                 [dirs |-> Prefixes(ArchiveDirOf(a)), files |-> NoFiles]}
                \cup (IF target = a.dir1 THEN {}
                      ELSE {[dirs |-> Prefixes(ArchiveDirOf(a)),
                             files |-> WithFile(NoFiles, target, File(<<Ws>>, 0))]}) }

Init ==
    /\ \E d1 \in SourcePaths : \E ar \in ArchiveArgs(d1) :
          args = [dir1 |-> d1, dir2 |-> <<"out">>, archive |-> ar]
    /\ \E fs \in StartFs(args) :
          /\ fsDirs = fs.dirs
          /\ fsFiles = fs.files
          /\ fs0 = fs
    /\ pc = "start"
    /\ html_content = <<>>
    /\ data = EmptyDict
    /\ xml_content = XmlNone
    /\ ret = NoReturn
    /\ raised = NoError
    /\ status = 0 - 1
    /\ steps = <<>>
    /\ run = 1
    /\ history = <<>>

----------------------------------------------------------------------------
(* main, one action per stage, and the script around it *)

\* main returns code
Return(code) ==
    /\ ret' = code
    /\ pc' = "returned"

\* an exception no except clause of main catches leaves main
Propagate ==
    /\ ret' = ret
    /\ pc' = "raised"

\* both directories made before anything is read
SetUpBothDirs == fsDirs \cup Prefixes(OutputDir) \cup Prefixes(ArchiveDir)

\* line 179: os.makedirs(output_dir, exist_ok=True)
SetUpOutputDir == fsDirs \cup Prefixes(OutputDir)

\* lines 176-183: the output directory
MakeOutputDir ==
    /\ pc = "start"
    /\ UNCHANGED <<args, fsFiles, html_content, data, xml_content, status, run,
                   history, fs0>>
    /\ IF Exists(OutputDir)
       THEN /\ pc' = "read"
            /\ UNCHANGED <<fsDirs, ret, raised, steps>>
       ELSE /\ steps' = Append(steps, "makedirs_output")
            /\ \/ /\ fsDirs' = SetUpOutputDir
                  /\ pc' = "read"
                  /\ UNCHANGED <<ret, raised>>
               \/ \E e \in {"PermissionError", "OSError"} :
                     /\ raised' = Error("makedirs_output", e, TRUE)
                     /\ Return(CREATE_DIR_ERROR)
                     /\ UNCHANGED fsDirs

\* lines 190-192 with read_html_file, lines 41-50
ReadHtml ==
    /\ pc = "read"
    /\ steps' = Append(steps, "read")
    /\ UNCHANGED <<args, fsDirs, fsFiles, data, xml_content, status, run, history, fs0>>
    /\ IF args.dir1 \in fsDirs
       THEN /\ raised' = Error("open_source", "IsADirectoryError", FALSE)
            /\ Propagate
            /\ UNCHANGED html_content
       ELSE IF args.dir1 \notin DOMAIN fsFiles
       THEN /\ raised' = Error("open_source", "FileNotFoundError", FALSE)
            /\ Return(READ_HTML_ERROR)
            /\ UNCHANGED html_content
       ELSE \/ \E e \in {"PermissionError", "UnicodeDecodeError"} :
                  /\ raised' = Error("open_source", e, TRUE)
                  /\ Propagate
                  /\ UNCHANGED html_content
            \/ LET content == StripDoc(fsFiles[args.dir1].doc)
               IN  IF content = <<>>
                   THEN /\ Return(READ_HTML_ERROR)
                        /\ UNCHANGED <<html_content, raised>>
                   ELSE /\ html_content' = content
                        /\ pc' = "parse"
                        /\ UNCHANGED <<ret, raised>>

\* line 194, html_to_xml lines 72-80: the rows of the document fill `data`
ExtractStep ==
    /\ pc = "parse"
    /\ steps' = Append(steps, "extract")
    /\ data' = ExtractFields(html_content)
    /\ pc' = "validate"
    /\ UNCHANGED <<args, fsDirs, fsFiles, html_content, xml_content, ret, raised,
                   status, run, history, fs0>>

\* the error is logged and the return is missing
ParseFailedNoReturn ==
    /\ ret' = ret
    /\ pc' = "write"

\* lines 195-196: html_to_xml gave None
ParseFailed == Return(PARSE_XML_ERROR)

\* html_to_xml lines 82-128 and what main does with the result, lines 194-196
ValidateStep ==
    /\ pc = "validate"
    /\ steps' = Append(steps, "validate")
    /\ xml_content' = Validate(data)
    /\ UNCHANGED <<args, fsDirs, fsFiles, html_content, data, status, run, history, fs0>>
    /\ IF xml_content'.kind = "None"
       THEN ParseFailed /\ UNCHANGED raised
       ELSE IF xml_content'.kind = "raise"
       THEN /\ raised' = Error("html_to_xml", xml_content'.exc, FALSE)
            /\ Propagate
       ELSE /\ pc' = "write"
            /\ UNCHANGED <<ret, raised>>

\* lines 199-209: PermissionError is caught, every other OSError is not
WriteXml ==
    /\ pc = "write"
    /\ steps' = Append(steps, "write")
    /\ UNCHANGED <<args, fsDirs, html_content, data, xml_content, status, run, history, fs0>>
    /\ \/ /\ fsFiles' = WithFile(fsFiles, OutputXmlFile, File(xml_content.xml, run))
          /\ pc' = "archive_dir"
          /\ UNCHANGED <<ret, raised>>
       \/ /\ raised' = Error("write_xml", "PermissionError", TRUE)
          /\ Return(WRITE_XML_ERROR)
          /\ UNCHANGED fsFiles
       \/ /\ raised' = Error("write_xml", "OSError", TRUE)
          /\ Propagate
          /\ UNCHANGED fsFiles

\* the code of the other archiving failures
ArchiveDirErrorAsArchive == ARCHIVE_ERROR

\* the code line 219 returns
ArchiveDirErrorCode == CREATE_DIR_ERROR

\* lines 212-219: the archive directory
MakeArchiveDir ==
    /\ pc = "archive_dir"
    /\ UNCHANGED <<args, fsFiles, html_content, data, xml_content, status, run,
                   history, fs0>>
    /\ IF Exists(ArchiveDir)
       THEN /\ pc' = "remove"
            /\ UNCHANGED <<fsDirs, ret, raised, steps>>
       ELSE /\ steps' = Append(steps, "makedirs_archive")
            /\ \/ /\ fsDirs' = fsDirs \cup Prefixes(ArchiveDir)
                  /\ pc' = "remove"
                  /\ UNCHANGED <<ret, raised>>
               \/ \E e \in {"PermissionError", "OSError"} :
                     /\ raised' = Error("makedirs_archive", e, TRUE)
                     /\ Return(ArchiveDirErrorCode)
                     /\ UNCHANGED fsDirs

\* the except clause of line 230
ArchiveCaught(e) == e \in {"PermissionError", "FileNotFoundError"}

\* where an exception of the try block of lines 223-232 goes
ArchiveFailed(op, e, env) ==
    /\ raised' = Error(op, e, env)
    /\ IF ArchiveCaught(e) THEN Return(ARCHIVE_ERROR) ELSE Propagate

\* lines 224-226: an existing file of the archive with the source's name goes
RemoveExisting ==
    /\ pc = "remove"
    /\ UNCHANGED <<args, fsDirs, html_content, data, xml_content, status, run, history, fs0>>
    /\ IF ~Exists(TargetFilePath)
       THEN /\ pc' = "move"
            /\ UNCHANGED <<fsFiles, ret, raised, steps>>
       ELSE /\ steps' = Append(steps, "remove")
            /\ \/ /\ fsFiles' = WithoutFile(fsFiles, TargetFilePath)
                  /\ pc' = "move"
                  /\ UNCHANGED <<ret, raised>>
               \/ \E e \in {"PermissionError", "OSError"} :
                     /\ ArchiveFailed("remove", e, TRUE)
                     /\ UNCHANGED fsFiles

\* lines 228-234, shutil.move(args.dir1, archive_dir): os.rename, and when it
\* fails copy the file and unlink the source
MoveSource ==
    /\ pc = "move"
    /\ steps' = Append(steps, "move")
    /\ UNCHANGED <<args, fsDirs, html_content, data, xml_content, status, run, history, fs0>>
    /\ IF args.dir1 \notin DOMAIN fsFiles
       THEN /\ ArchiveFailed("move", "FileNotFoundError", FALSE)
            /\ UNCHANGED fsFiles
       ELSE \/ /\ fsFiles' = WithFile(WithoutFile(fsFiles, args.dir1),
                                      TargetFilePath, fsFiles[args.dir1])
               /\ Return(SUCCESS)
               /\ UNCHANGED raised
            \/ \E e \in {"PermissionError", "OSError"} :
                  \/ /\ ArchiveFailed("move", e, TRUE)
                     /\ UNCHANGED fsFiles
                  \/ /\ ArchiveFailed("unlink", e, TRUE)
                     /\ fsFiles' = WithFile(fsFiles, TargetFilePath, fsFiles[args.dir1])

\* lines 237-240: exit(exit_code); an uncaught exception ends the script
\* with the traceback and status 1
Exit ==
    /\ pc \in {"returned", "raised"}
    /\ status' = IF pc = "returned" THEN ExitStatus(ret) ELSE 1
    /\ pc' = "exited"
    /\ UNCHANGED <<args, fsDirs, fsFiles, html_content, data, xml_content, ret,
                   raised, steps, run, history, fs0>>

\* The station writes the next report under the same name and the tool is
\* invoked again with the same command line.
NextRun ==
    /\ pc = "exited"
    /\ run < MaxRuns
    /\ args.dir1 \notin fsDirs
    /\ \E d \in Docs :
          /\ fsFiles' = WithFile(fsFiles, args.dir1, File(d, run + 1))
          /\ fs0' = [dirs |-> fsDirs, files |-> fsFiles']
    /\ history' = Append(history, [ret |-> ret, raised |-> raised, steps |-> steps])
    /\ run' = run + 1
    /\ pc' = "start"
    /\ html_content' = <<>>
    /\ data' = EmptyDict
    /\ xml_content' = XmlNone
    /\ ret' = NoReturn
    /\ raised' = NoError
    /\ status' = 0 - 1
    /\ steps' = <<>>
    /\ UNCHANGED <<args, fsDirs>>

Next ==
    \/ MakeOutputDir
    \/ ReadHtml
    \/ ExtractStep
    \/ ValidateStep
    \/ WriteXml
    \/ MakeArchiveDir
    \/ RemoveExisting
    \/ MoveSource
    \/ Exit
    \/ NextRun

Spec == Init /\ [][Next]_vars

----------------------------------------------------------------------------
(* The extractor over every small document of two-cell rows *)

RECURSIVE StringsUpTo(_, _)
StringsUpTo(alphabet, n) ==
    IF n = 0 THEN {""}
    ELSE LET shorter == StringsUpTo(alphabet, n - 1)
         IN  shorter \cup {s \o c : s \in shorter, c \in alphabet}

RECURSIVE SeqsUpTo(_, _)
SeqsUpTo(S, n) ==
    IF n = 0 THEN {<<>>}
    ELSE LET shorter == SeqsUpTo(S, n - 1)
         IN  shorter \cup {Append(q, x) : q \in shorter, x \in S}

ValueCells == {"1", " 2 "}

\* the documents of up to n two-cell rows with headers of up to m characters
RowDocs(n, m) ==
    SeqsUpTo({Tr(<<h, v>>) : h \in StringsUpTo({"a", ":", " "}, m), v \in ValueCells}, n)

Idle ==
    /\ args = [dir1 |-> <<"data", "in", "r.html">>, dir2 |-> <<"out">>,
               archive |-> [given |-> FALSE, path |-> <<>>]]
    /\ fsDirs = {<<>>}
    /\ fsFiles = NoFiles
    /\ fs0 = [dirs |-> {<<>>}, files |-> NoFiles]
    /\ xml_content = XmlNone
    /\ ret = NoReturn
    /\ raised = NoError
    /\ status = 0 - 1
    /\ steps = <<>>
    /\ run = 1
    /\ history = <<>>

InitRows ==
    /\ Idle
    /\ html_content \in RowDocs(MaxRows, MaxCellLen)
    /\ data = EmptyDict
    /\ pc = "parse"

SpecRows == InitRows /\ [][ExtractStep]_vars

----------------------------------------------------------------------------
(* The validator over the RawFields mappings of small field texts *)

Absent == "<absent>"

FieldTexts(k) ==
    CASE k = "UUT Result" -> {Absent, "Passed", "Failed"}
      [] k = "Date" -> {Absent, "", "Friday 2024", "Friday 2024-05-01", "0001"}
      [] k = "Time" -> {Absent, "", "13.05.00", "0.0.0", "24.00.00"}
      [] k = "Execution Time" ->
            {Absent, "", "45 seconds", "x", "inf", "nan", "-1", "1.5 s"}
      [] OTHER -> {Absent, "S1"}

FieldNames ==
    {RequiredFields[i] : i \in 1..Len(RequiredFields)} \cup {"Execution Time"}

\* the mapping that has the keys of f whose text is not Absent
AsDict(f) == [k \in {n \in DOMAIN f : f[n] # Absent} |-> f[k]]

FieldMaps ==
    { AsDict([k \in FieldNames |->
                CASE k = "Station ID" -> st [] k = "Serial Number" -> sn
                  [] k = "Sequence Name" -> sq [] k = "UUT Result" -> ur
                  [] k = "Date" -> dt [] k = "Time" -> tm
                  [] k = "Execution Time" -> ex]) :
        st \in FieldTexts("Station ID"), sn \in FieldTexts("Serial Number"),
        sq \in FieldTexts("Sequence Name"), ur \in FieldTexts("UUT Result"),
        dt \in FieldTexts("Date"), tm \in FieldTexts("Time"),
        ex \in FieldTexts("Execution Time") }

InitFields ==
    /\ Idle
    /\ html_content = <<>>
    /\ data \in FieldMaps
    /\ pc = "validate"

SpecFields == InitFields /\ [][ValidateStep]_vars

----------------------------------------------------------------------------
(* The claims *)

Ended == pc \in {"returned", "raised", "exited"}
Returned == pc \in {"returned", "exited"} /\ ret # NoReturn

StepSet == {steps[i] : i \in 1..Len(steps)}

ArchiveOps == {"remove", "move", "unlink"}

\* s can be had from t by leaving elements out
RECURSIVE IsSubseq(_, _)
IsSubseq(s, t) ==
    IF Len(s) = 0 THEN TRUE
    ELSE IF Len(t) = 0 THEN FALSE
    ELSE IF s[1] = t[1] THEN IsSubseq(Tail(s), Tail(t))
    ELSE IsSubseq(s, Tail(t))

\* the paths among the source path and the archived copy's path that hold
\* the file the run was given
HoldersOfSource ==
    {p \in {args.dir1, TargetFilePath} \cap DOMAIN fsFiles :
        fsFiles[p] = fs0.files[args.dir1]}

\* C1: after a run that reached the archiving step and returned the archiving
\* failure or success, the source file is in exactly one place: at its
\* original path after the failure, in the archive directory after success.
C1_SourceInExactlyOnePlace ==
    (Returned /\ ret \in {ARCHIVE_ERROR, SUCCESS} /\ args.dir1 \in DOMAIN fs0.files)
    => /\ Cardinality(HoldersOfSource) = 1
       /\ (ret = ARCHIVE_ERROR => HoldersOfSource = {args.dir1})
       /\ (ret = SUCCESS => HoldersOfSource = {TargetFilePath})

\* C2 as stated: every archiving failure (creating the archive directory,
\* removing the archived copy, moving the source) gives code 5, and code 1 is
\* returned only when the output directory could not be created.
C2_TableCodes ==
    Returned =>
       /\ (raised.op \in ArchiveOps \cup {"makedirs_archive"} => ret = ARCHIVE_ERROR)
       /\ (ret = CREATE_DIR_ERROR => raised.op = "makedirs_output")

\* C2 amended: a failure to create either directory, the output or the
\* archive directory, gives code 1, and nothing else does; a PermissionError
\* or FileNotFoundError while removing the archived copy or moving the source
\* gives code 5, nothing else does, and any other error of these two
\* operations leaves main without a return value.
C2_DirectoryCodes ==
    Ended =>
       /\ (raised.op \in {"makedirs_output", "makedirs_archive"} => ret = CREATE_DIR_ERROR)
       /\ (ret = CREATE_DIR_ERROR => raised.op \in {"makedirs_output", "makedirs_archive"})
       /\ (raised.op \in ArchiveOps =>
             ret = IF raised.exc \in {"PermissionError", "FileNotFoundError"}
                   THEN ARCHIVE_ERROR ELSE NoReturn)
       /\ (ret = ARCHIVE_ERROR => raised.op \in ArchiveOps)

C2_Witness ==
    /\ pc = "returned"
    /\ raised.op = "makedirs_archive"
    /\ ret = CREATE_DIR_ERROR

\* C3: the exit status of the process is the integer code of the outcome
\* main returned.
C3_StatusIsCode ==
    (pc = "exited" /\ ret # NoReturn) => status = ret.value

\* the order of the stages in the specification / in main
SpecOrder ==
    <<"read", "extract", "validate", "makedirs_output", "write",
      "makedirs_archive", "remove", "move">>
CodeOrder ==
    <<"makedirs_output", "read", "extract", "validate", "write",
      "makedirs_archive", "remove", "move">>

ReadOrValidationFailed ==
    \/ ret \in {READ_HTML_ERROR, PARSE_XML_ERROR}
    \/ pc \in {"raised", "exited"} /\ raised.op \in {"open_source", "html_to_xml"}

\* C4 as stated: the stages run in the order reader, extractor, validator,
\* builder, writer, archiver, and a run whose reading or validation fails has
\* none of the writer's and archiver's filesystem effects, the creation of
\* the output directory included.
C4_SpecOrder ==
    /\ IsSubseq(steps, SpecOrder)
    /\ (ReadOrValidationFailed => fsDirs = fs0.dirs /\ fsFiles = fs0.files)

\* C4 amended: the output directory is made first, then the stages run in
\* the order reader, extractor, validator, writer, archiver; the extractor
\* runs only on content that was read, the writer only on the XML of a
\* validated report, and a run whose reading or validation fails performs
\* no step after the failing one.
C4_CodeOrder ==
    /\ IsSubseq(steps, CodeOrder)
    /\ ("extract" \in StepSet => html_content # <<>>)
    /\ ("write" \in StepSet => xml_content.kind = "xml")
    /\ (ReadOrValidationFailed =>
          StepSet \subseteq {"makedirs_output", "read", "extract", "validate"})

C4_Witness ==
    /\ ret = READ_HTML_ERROR
    /\ steps = <<"makedirs_output", "read">>
    /\ fsDirs # fs0.dirs

\* C5: html_to_xml ends in one of two ways, an XML string or None, None
\* makes main return code 3, and a mapping that lacks a required field always
\* gives code 3.
C5_TwoOutcomes ==
    pc # "validate" =>
       /\ xml_content.kind \in {"xml", "None"}
       /\ (xml_content.kind = "None" => ret = PARSE_XML_ERROR)
       /\ (MissingFields(data) # {} => ret = PARSE_XML_ERROR)

\* the fields of the example of the specification, with the Date text d
ExampleFields(d) ==
    /\ MissingFields(data) = {}
    /\ "Execution Time" \in DOMAIN data
    /\ data["Date"] = d
    /\ data["Time"] = "13.05.00"
    /\ data["Execution Time"] = "45 seconds"

StartTime == xml_content.xml[7][2]
EndTime == xml_content.xml[8][2]

\* EndTime - StartTime is sign * (whole seconds and micros microseconds)
EndIsStartPlus(neg, whole, micros) ==
    LET dsec == (EndTime.ordinal - StartTime.ordinal) * 86400
                + EndTime.second - StartTime.second
        dus  == EndTime.microsecond - StartTime.microsecond
        s    == IF neg THEN 0 - whole ELSE whole
        u    == IF neg THEN 0 - micros ELSE micros
    IN  \E k \in {0 - 1, 0, 1} : dsec = s + k /\ dus = u - k * 1000000

\* C6 as stated: Date "Friday 2024-05-01" with Time "13.05.00" and Execution
\* Time "45 seconds" parses, and end_time is start_time + 45 seconds.
C6_ExampleParses ==
    (pc # "validate" /\ ExampleFields("Friday 2024-05-01"))
    => xml_content.kind = "xml" /\ EndIsStartPlus(FALSE, 45, 0)

\* C6 amended: the composite "2024-05-01 13:05:00" of that example does not
\* match '%Y %H:%M:%S' and the run ends with code 3; with Date "Friday 2024"
\* the composite "2024 13:05:00" parses to January 1st 2024, 13:05:00, and
\* end_time is 45 seconds later; whenever the composite parses and the XML is
\* built, end_time is start_time plus the Execution Time seconds.
C6_EndIsStartPlusExecution ==
    pc # "validate" =>
       /\ (ExampleFields("Friday 2024-05-01") =>
             xml_content.kind = "None" /\ ret = PARSE_XML_ERROR)
       /\ (ExampleFields("Friday 2024") =>
             /\ xml_content.kind = "xml"
             /\ StartTime = [ok |-> TRUE, ordinal |-> 738886, second |-> 47100,
                             microsecond |-> 0]
             /\ EndTime = [ok |-> TRUE, ordinal |-> 738886, second |-> 47145,
                           microsecond |-> 0])
       /\ (xml_content.kind = "xml" =>
             LET x == ParseFloat(Split(Get(data, "Execution Time", "0 seconds"))[1])
             IN  EndIsStartPlus(x.neg, x.whole, x.micros))

C6_Witness ==
    /\ pc = "write"
    /\ ExampleFields("Friday 2024")
    /\ xml_content.kind = "xml"

\* C7: two runs in a row on a source of the same name and the same archive
\* directory, both given a report that validates and neither hindered by the
\* environment, both return success, and the archive then holds the second
\* run's file and the source path holds none.
C7_BothRunsSucceed ==
    (/\ run = 2
     /\ Ended
     /\ "write" \in {history[1].steps[i] : i \in 1..Len(history[1].steps)}
     /\ "write" \in StepSet
     /\ ~history[1].raised.env
     /\ ~raised.env)
    => /\ history[1].ret = SUCCESS
       /\ ret = SUCCESS
       /\ HoldersOfSource = {TargetFilePath}
       /\ args.dir1 \notin DOMAIN fsFiles

\* the key the specification gives a header cell: trimmed, one trailing colon
\* removed
RefHeader(cell) ==
    LET t == Strip(cell)
    IN  IF Len(t) > 0 /\ Char(t, Len(t)) = ":" THEN SubSeq(t, 1, Len(t) - 1) ELSE t

RECURSIVE RefExtract(_, _)
RefExtract(doc, d) ==
    IF Len(doc) = 0 THEN d
    ELSE RefExtract(Tail(doc),
                    IF doc[1].kind = "tr" /\ Len(doc[1].cells) = 2
                    THEN Put(d, RefHeader(doc[1].cells[1]), Strip(doc[1].cells[2]))
                    ELSE d)

\* C8: the extractor's mapping is the reference mapping: key = the trimmed
\* first cell without a trailing colon, value = the trimmed second cell, the
\* later row winning.
C8_ExtractorIsReference ==
    pc = "validate" => data = RefExtract(html_content, EmptyDict)

\* C9: every failure of a filesystem operation becomes the exit code of its
\* stage (2 for the source, 4 for the XML file, 5 for remove and move) and
\* main never ends by an unhandled error.
C9_EveryFailureHasItsCode ==
    Ended =>
       /\ (raised.op = "open_source" => ret = READ_HTML_ERROR)
       /\ (raised.op = "write_xml" => ret = WRITE_XML_ERROR)
       /\ (raised.op \in ArchiveOps => ret = ARCHIVE_ERROR)

\* C10: a run that returns READ_HTML_ERROR or PARSE_XML_ERROR has changed no
\* file (the source, the XML file and the archive are as they were) and no
\* directory other than by creating the output directory.
C10_FailedRunFrame ==
    ret \in {READ_HTML_ERROR, PARSE_XML_ERROR} =>
       /\ fsFiles = fs0.files
       /\ fs0.dirs \subseteq fsDirs
       /\ fsDirs \ fs0.dirs \subseteq Prefixes(OutputDir)

C10_Witness ==
    /\ ret = PARSE_XML_ERROR
    /\ args.dir1 \in DOMAIN fsFiles
    /\ fsDirs # fs0.dirs

====
